---- MODULE Spec2Model ----
(***************************************************************************)
(* Recipe ingestion backend (backend/recipes): the placeholder/extraction  *)
(* job lifecycle of recipes/views.py and recipes/tasks.py, and the weekly  *)
(* trending sync job of recipes/tasks.py, over the Recipe / Ingredient /   *)
(* Step / Nutrient / TrendingRecipe tables of recipes/models.py.           *)
(*                                                                         *)
(* Every ORM statement runs in autocommit mode (no transaction.atomic in   *)
(* recipes/), so each statement is one step of the model; network calls    *)
(* and pure computation are folded into the statement that precedes them.  *)
(***************************************************************************)
EXTENDS Integers, Sequences, FiniteSets, Bags, TLC

\* ---------------------------------------------------------------- bounds
MaxRequests == 1
MaxRedeliver == 1
MaxSyncRuns == 2
MaxWeek == 2
MaxNutrients == 3

\* ------------------------------------------------------ program constants
max_retries == 3
sync_max_retries == 3
\* tasks.py:638 : self.retry(exc=e, countdown=300)
sync_countdown == 300

Users == {"u1"}
Tasks == {"llm", "ocr"}

\* views.py:393 / views.py:594
SentinelName(task) ==
  IF task = "llm" THEN "Processing recipe..." ELSE "Processing recipe from image..."

\* views.py:394 / views.py:595
SentinelDescription(task) ==
  IF task = "llm" THEN "Recipe extraction in progress. Please wait."
  ELSE "Recipe OCR extraction in progress. Please wait."

SentinelNames == {SentinelName(t) : t \in Tasks}

\* The argument the job receives besides the ids: the url, or the stored path.
SourceOf(task) == IF task = "llm" THEN "http://site/page" ELSE "recipe_images/u1_ab12cd34.png"

\* ------------------------------------------------------- oracle responses
\* An entry of the oracle's "ingredients" array.  kind "dict" is a JSON object,
\* kind "other" any JSON value that is neither an object nor a string.
ItemFlour == [kind |-> "dict", name |-> "flour", numeric |-> TRUE, quantity |-> 2,
              unit |-> "cup"]
ItemBlank == [kind |-> "dict", name |-> "", numeric |-> TRUE, quantity |-> 1, unit |-> "tsp"]
ItemNumber == [kind |-> "other", name |-> "", numeric |-> TRUE, quantity |-> 0, unit |-> ""]
\* numeric FALSE: 'quantity' is null or a string float() cannot read ("a pinch")
ItemSalt == [kind |-> "dict", name |-> "salt", numeric |-> FALSE, quantity |-> 0,
             unit |-> "pinch"]

\* What the completion service hands back.  kind: "raise" the call raised or
\* timed out, "nonjson" the content is not JSON, "nondict" JSON that is not an
\* object, "dict" a JSON object with the keys below (is_recipe "absent" = key
\* missing; has_title / has_ingredients = key present).
RespBase ==
  [kind |-> "dict", is_recipe |-> "true", reason |-> "", has_title |-> TRUE,
   title |-> "Pancakes", has_ingredients |-> TRUE, ingredients |-> <<>>,
   instructions_list |-> <<>>, nutrients |-> <<>>, serves |-> 0]

RespRaise   == [RespBase EXCEPT !.kind = "raise"]
RespNonJson == [RespBase EXCEPT !.kind = "nonjson"]
RespReject  == [RespBase EXCEPT !.is_recipe = "false", !.reason = "not a recipe page",
                                !.has_title = FALSE, !.title = "",
                                !.has_ingredients = FALSE]
RespEmpty   == [RespBase EXCEPT !.title = "Empty"]
RespRecipe  == [RespBase EXCEPT !.ingredients = <<ItemFlour>>,
                                !.instructions_list = <<"Mix">>,
                                !.nutrients = <<"calories">>, !.serves = 4]
RespBadItem == [RespBase EXCEPT !.title = "Soup",
                                !.ingredients = <<ItemNumber>>]
RespSalad   == [RespBase EXCEPT !.title = "Salad",
                                !.ingredients = <<ItemSalt>>]

OracleResponses ==
  {RespRaise, RespNonJson, RespReject, RespEmpty, RespRecipe, RespBadItem, RespSalad}

\* services.py:484 / services.py:585 : the value returned from the except branch
ErrorResult(task) ==
  [is_recipe |-> FALSE,
   reason |-> IF task = "llm" THEN "LLM error" ELSE "OCR error",
   title |-> IF task = "llm" THEN "Recipe from URL" ELSE "",
   description |-> IF task = "llm" THEN "Could not extract recipe details" ELSE "",
   ingredients |-> <<>>, instructions_list |-> <<>>, nutrients |-> <<>>, serves |-> 0]

\* services.py:387-486 (_get_recipe_from_llm) and 490-587 (_get_recipe_from_image)
GetRecipeFromOracle(task, resp) ==
  IF resp.kind \in {"raise", "nonjson"} THEN ErrorResult(task)
  ELSE
    LET isdict == resp.kind = "dict"
        \* not a dict: replaced by {"is_recipe": False, "reason": ...}
        is_recipe == IF ~isdict THEN FALSE
                     ELSE IF resp.is_recipe = "absent" THEN TRUE
                     ELSE resp.is_recipe = "true"
        has_ing == (isdict /\ resp.has_ingredients) \/ is_recipe
    IN IF ~has_ing THEN ErrorResult(task)   \* result['ingredients'] raises KeyError
       ELSE [is_recipe |-> is_recipe,
             reason |-> IF isdict THEN resp.reason ELSE "Invalid JSON structure",
             title |-> IF resp.has_title THEN resp.title
                       ELSE IF is_recipe
                            THEN (IF task = "llm" THEN "Recipe from URL" ELSE "Recipe from Image")
                            ELSE "",
             description |-> IF is_recipe THEN "Extracted recipe" ELSE "",
             ingredients |-> IF resp.has_ingredients THEN resp.ingredients ELSE <<>>,
             instructions_list |-> resp.instructions_list,
             nutrients |-> resp.nutrients,
             serves |-> resp.serves]



\* ------------------------------------------------------- trending feed
\* ------------------------------------------ normalize_spoonacular_recipe_data
\* A JSON object is the function from its keys to their values; the empty
\* object is the function with no key.  A JSON number is [num |-> n], with
\* amounts counted in ten-thousandths; null, '' and text that is not a number
\* are [none |-> TRUE] and [text |-> s].
Num(n) == [num |-> n]
None == [none |-> TRUE]
IsNum(v) == "num" \in DOMAIN v
Get(obj, key, default) == IF key \in DOMAIN obj THEN obj[key] ELSE default

\* services.py:168-190 : a positive integer, or 0 for None
parse_serves_value(v) == IF v > 0 THEN v ELSE 0

\* services.py:240-246 : _get_float
get_float(value, default) == IF IsNum(value) THEN value.num ELSE default

\* services.py:248-254 : _get_int
get_int(value, default) == IF IsNum(value) THEN value.num ELSE default

\* round(x, 3) on an amount in ten-thousandths
Round3(x) == IF x >= 0 THEN ((x + 5) \div 10) * 10 ELSE 0 - (((0 - x) + 5) \div 10) * 10

\* str.lower() on the nutrient names of the modelled payloads
Lower(name) ==
  CASE name = "Calories" -> "calories"
    [] name = "Energy" -> "energy"
    [] name = "PROTEIN" -> "protein"
    [] OTHER -> name

\* services.py:207-221
NUTRIENT_NAME_MAP ==
  [calories |-> "calories", energy |-> "calories", fat |-> "fatContent",
   protein |-> "proteinContent", sodium |-> "sodiumContent"]

\* services.py:264-302 : the ingredient entries of the three source lists
RECURSIVE NormIngredients(_)
NormIngredients(list) ==
  IF list = <<>> THEN <<>>
  ELSE LET ingredient == Head(list)
           name == Get(ingredient, "name", "")
       IN IF name = "" THEN NormIngredients(Tail(list))
          ELSE <<[name |-> name,
                  quantity |-> Round3(get_float(Get(ingredient, "amount", None), 0)),
                  unit |-> Get(ingredient, "unit", "")]>>
               \o NormIngredients(Tail(list))

\* services.py:305-324 : the steps of all instruction sections, in order
RECURSIVE Flatten(_)
Flatten(analyzed) ==
  IF analyzed = <<>> THEN <<>>
  ELSE Get(Head(analyzed), "steps", <<>>) \o Flatten(Tail(analyzed))

RECURSIVE NormSteps(_, _)
NormSteps(list, steps) ==
  IF list = <<>> THEN steps
  ELSE LET step == Head(list)
           description_text == Get(step, "step", "")
           number == Get(step, "number", None)
       IN IF description_text = "" THEN NormSteps(Tail(list), steps)
          ELSE NormSteps(Tail(list),
                         Append(steps, [description |-> description_text,
                                        order |-> get_int(number, Len(steps) + 1)]))

\* Mutant: a later nutrient of a macro already present is appended as well
RECURSIVE NormNutrients_KeepAll(_, _)
NormNutrients_KeepAll(list, nutrients) ==
  IF list = <<>> THEN nutrients
  ELSE LET name == Lower(Get(Head(list), "name", ""))
       IN IF name \notin DOMAIN NUTRIENT_NAME_MAP
          THEN NormNutrients_KeepAll(Tail(list), nutrients)
          ELSE NormNutrients_KeepAll(Tail(list),
                 Append(nutrients,
                        [macro |-> NUTRIENT_NAME_MAP[name],
                         mass |-> Round3(get_float(Get(Head(list), "amount", None), 0))]))

\* services.py:334-353
RECURSIVE NormNutrients(_, _)
NormNutrients(list, nutrients) ==
  IF list = <<>> THEN nutrients
  ELSE LET nutrient == Head(list)
           name == Lower(Get(nutrient, "name", ""))
       IN IF name \notin DOMAIN NUTRIENT_NAME_MAP
          THEN NormNutrients(Tail(list), nutrients)
          ELSE IF \E k \in 1..Len(nutrients) : nutrients[k].macro = NUTRIENT_NAME_MAP[name]
          THEN NormNutrients(Tail(list), nutrients)
          ELSE NormNutrients(Tail(list),
                 Append(nutrients,
                        [macro |-> NUTRIENT_NAME_MAP[name],
                         mass |-> Round3(get_float(Get(nutrient, "amount", None), 0))]))

\* services.py:224-366 ; of the returned keys, those the sync job stores
normalize_spoonacular_recipe_data(recipe) ==
  IF DOMAIN recipe = {}
  THEN [name |-> "", serves |-> 0, ingredients |-> <<>>, steps |-> <<>>, nutrients |-> <<>>]
  ELSE LET title == IF Get(recipe, "title", "") # "" THEN recipe.title
                    ELSE IF Get(recipe, "name", "") # "" THEN recipe.name
                    ELSE "Untitled Recipe"
           analyzed == NormSteps(Flatten(Get(recipe, "analyzedInstructions", <<>>)), <<>>)
           instructions_text == Get(recipe, "instructions", "")
       IN [name |-> title,
           serves |-> parse_serves_value(Get(recipe, "servings", 0)),
           ingredients |-> NormIngredients(Get(recipe, "extendedIngredients", <<>>)
                                           \o Get(recipe, "usedIngredients", <<>>)
                                           \o Get(recipe, "missedIngredients", <<>>)),
           steps |-> IF analyzed # <<>> THEN analyzed
                     ELSE IF instructions_text # ""
                     THEN <<[description |-> instructions_text, order |-> 1]>>
                     ELSE <<>>,
           nutrients |-> NormNutrients(Get(Get(recipe, "nutrition", <<>>), "nutrients", <<>>),
                                       <<>>)]

\* A feed entry after fetch_trending_recipes_from_spoonacular attached its
\* 'normalized_recipe' (services.py:794-799); id 0 = no 'id' key.
Candidate(id, name, ings, stps, nuts) ==
  [id |-> id,
   normalized_recipe |-> [name |-> name, serves |-> 0, ingredients |-> ings,
                          steps |-> stps, nutrients |-> nuts]]
CandTacos == Candidate(101, "Tacos", <<[name |-> "beef", quantity |-> 1, unit |-> "lb"]>>,
                       <<>>, <<>>)
\* An external recipe whose instructions come in two sections, each numbered from 1
RawCurry ==
  [id |-> 102, title |-> "Curry",
   analyzedInstructions |->
     <<[name |-> "", steps |-> <<[number |-> Num(1), step |-> "Simmer"]>>],
       [name |-> "Rice", steps |-> <<[number |-> Num(1), step |-> "Boil"]>>]>>,
   nutrition |-> [nutrients |-> <<[name |-> "Calories", amount |-> Num(2000000)]>>]]
CandCurry == [id |-> RawCurry.id,
              normalized_recipe |-> normalize_spoonacular_recipe_data(RawCurry)]
CandNoId  == Candidate(0, "Stew", <<>>, <<>>, <<>>)
\* The external recipe 101 again, with different content
CandTacosV2 == Candidate(101, "Tacos al pastor",
                         <<[name |-> "pork", quantity |-> 2, unit |-> "lb"]>>, <<>>, <<>>)

Feeds == {<<>>, <<CandTacos>>, <<CandNoId, CandCurry>>, <<CandTacosV2, CandCurry>>}

\* What one endpoint call does: raises, or returns a list of recipes
FeedOutcomes == {[ok |-> FALSE, recipes |-> <<>>]} \cup {[ok |-> TRUE, recipes |-> f] : f \in Feeds}

\* Mutant: a failure of the random endpoint also falls back to the search
fetch_trending_recipes_from_spoonacular_FallbackOnError(random, popular) ==
  IF random.ok /\ random.recipes # <<>>
  THEN [ok |-> TRUE, recipes |-> random.recipes, calls |-> 1,
        endpoints |-> <<"random">>]
  ELSE IF ~popular.ok
  THEN [ok |-> FALSE, recipes |-> <<>>, calls |-> 2,
        endpoints |-> <<"random", "complexSearch">>]
  ELSE [ok |-> TRUE, recipes |-> popular.recipes, calls |-> 2,
        endpoints |-> <<"random", "complexSearch">>]

\* services.py:750-857 : random endpoint first, popularity search when it is
\* empty.  ok = FALSE: the function raises.  endpoints: the requests sent, in order.
fetch_trending_recipes_from_spoonacular(random, popular) ==
  IF ~random.ok
  THEN [ok |-> FALSE, recipes |-> <<>>, calls |-> 1, endpoints |-> <<"random">>]
  ELSE IF random.recipes # <<>>
  THEN [ok |-> TRUE, recipes |-> random.recipes, calls |-> 1,
        endpoints |-> <<"random">>]
  ELSE IF ~popular.ok
  THEN [ok |-> FALSE, recipes |-> <<>>, calls |-> 2,
        endpoints |-> <<"random", "complexSearch">>]
  ELSE [ok |-> TRUE, recipes |-> popular.recipes, calls |-> 2,
        endpoints |-> <<"random", "complexSearch">>]

RECURSIVE MaxLen(_)
MaxLen(S) == IF S = {} THEN 0
             ELSE LET f == CHOOSE x \in S : TRUE
                      rest == MaxLen(S \ {f})
                  IN IF Len(f) > rest THEN Len(f) ELSE rest

\* Recipe primary keys the model can hand out
RecipeIds == 1..(MaxRequests + MaxSyncRuns * MaxLen(Feeds))

\* ------------------------------------------------------------------ state
VARIABLES
  recipes,      \* Recipe table: id -> row, for the ids that exist
  ingredients,  \* Ingredient table: recipe id -> bag of rows (primary keys left out)
  steps,        \* Step table: recipe id -> bag of rows
  nutrients,    \* Nutrient table: recipe id -> bag of rows
  nextId,       \* next value of the Recipe primary-key sequence
  msgs,         \* task queue: bag of job messages not yet acknowledged
  redelivered,  \* number of deliveries the queue made without acknowledging
  execs,        \* bag of job executions running on the worker pool
  response,     \* the response of the last creation request
  hist,         \* per placeholder id: what its executions have seen and done
  trending,     \* TrendingRecipe table: set of rows
  syncMsgs,     \* queued invocations of fetch_weekly_trending_recipes
  triggered,    \* number of times the sync job was triggered (beat or manual)
  runs,         \* bag of running invocations of fetch_weekly_trending_recipes
  week,         \* the current ISO week
  api_key,      \* whether SPOONACULAR_API_KEY is set in the environment
  lastRun,      \* feed calls and returned status of the invocation last started or ended
  finished,     \* weeks in which some invocation has returned
  arg,          \* the argument of a call of a pure function
  result        \* what that call returned

storeVars == <<recipes, ingredients, steps, nutrients, nextId>>
jobVars == <<msgs, redelivered, execs, response, hist>>
syncVars == <<trending, syncMsgs, triggered, runs, week, api_key, lastRun, finished>>
syncRest == <<syncMsgs, triggered, runs, week, api_key, lastRun, finished>>
callVars == <<arg, result>>
vars == <<recipes, ingredients, steps, nutrients, nextId, msgs, redelivered,
          execs, response, hist, trending, syncMsgs, triggered, runs, week,
          api_key, lastRun, finished, arg, result>>

\* The rows of a list, as a table keeps them
RECURSIVE SeqToBag(_)
SeqToBag(sq) == IF sq = <<>> THEN EmptyBag ELSE SetToBag({Head(sq)}) (+) SeqToBag(Tail(sq))

\* models.py:6-16 ; None is modelled as "" / 0
NewRecipe(u, name, description, source_url) ==
  [user |-> u, name |-> name, description |-> description,
   source_url |-> source_url, serves |-> 0, is_trending |-> FALSE]

NoRecipeObj == NewRecipe("", "", "", "")

Exists(rid) == rid \in DOMAIN recipes

\* Mutant: the delete does not cascade to the Ingredient rows
DeleteRecipe_KeepsIngredients(rid) ==
  /\ recipes' = [r \in DOMAIN recipes \ {rid} |-> recipes[r]]
  /\ ingredients' = ingredients
  /\ steps' = [steps EXCEPT ![rid] = EmptyBag]
  /\ nutrients' = [nutrients EXCEPT ![rid] = EmptyBag]
  /\ trending' = {t \in trending : t.recipe # rid}

\* Model.delete(): the row and, by on_delete=CASCADE (models.py:19, 26, 31, 49-53),
\* its child rows and the TrendingRecipe row linking to it
DeleteRecipe(rid) ==
  /\ recipes' = [r \in DOMAIN recipes \ {rid} |-> recipes[r]]
  /\ ingredients' = [ingredients EXCEPT ![rid] = EmptyBag]
  /\ steps' = [steps EXCEPT ![rid] = EmptyBag]
  /\ nutrients' = [nutrients EXCEPT ![rid] = EmptyBag]
  /\ trending' = {t \in trending : t.recipe # rid}

\* Model.save() of a loaded instance: UPDATE by primary key, INSERT when no row matched
SaveRecipe(rid, obj) ==
  recipes' = [r \in DOMAIN recipes \cup {rid} |-> IF r = rid THEN obj ELSE recipes[r]]

JobMsg(task, rid, uid, retries) ==
  [task |-> task, recipe_id |-> rid, source |-> SourceOf(task), user_id |-> uid,
   retries |-> retries]

\* No pure function is being evaluated
NoCall == [fn |-> ""]

\* No invocation of the weekly sync has run yet
NoRun == [status |-> "", message |-> "", calls |-> 0, errors |-> {}]

\* seen: "" before any execution, the cause every execution so far had, or
\* "mixed" once two executions differed

NoHist == [seen |-> "", child |-> FALSE, retried |-> FALSE]

Init ==
  /\ trending = {}
  /\ syncMsgs = EmptyBag
  /\ triggered = 0
  /\ runs = EmptyBag
  /\ week = 1
  /\ api_key = TRUE
  /\ lastRun = NoRun
  /\ finished = {}
  /\ recipes = <<>>
  /\ ingredients = [r \in RecipeIds |-> EmptyBag]
  /\ steps = [r \in RecipeIds |-> EmptyBag]
  /\ nutrients = [r \in RecipeIds |-> EmptyBag]
  /\ nextId = 1
  /\ msgs = EmptyBag
  /\ redelivered = 0
  /\ execs = EmptyBag
  /\ response = [status |-> "", id |-> 0]
  /\ hist = [r \in RecipeIds |-> NoHist]
  /\ arg = NoCall
  /\ result = NoCall

\* --------------------------------------------- recipe_list POST, async path
\* views.py:385-432 (url source, scraper raised or insufficient) and
\* views.py:591-633 (file source).  enqueue_ok = FALSE: .delay() raises.
CreatePlaceholder(task, u, enqueue_ok) ==
  /\ nextId <= MaxRequests
  /\ recipes' = (nextId :> NewRecipe(u, SentinelName(task), SentinelDescription(task),
                                     IF task = "llm" THEN SourceOf(task) ELSE ""))
                @@ recipes
  /\ nextId' = nextId + 1
  /\ IF enqueue_ok
     THEN /\ msgs' = msgs (+) SetToBag({JobMsg(task, nextId, u, 0)})
          /\ response' = [status |-> "processing", id |-> nextId]
     ELSE /\ msgs' = msgs
          /\ response' = [status |-> "error", id |-> 0]
  /\ UNCHANGED <<ingredients, steps, nutrients, redelivered, execs, hist>>

recipe_list_post ==
  \E task \in Tasks, u \in Users, enqueue_ok \in BOOLEAN :
    CreatePlaceholder(task, u, enqueue_ok) /\ UNCHANGED <<syncVars, callVars>>

\* ------------------------------------------------------- extraction job
\* process_llm_recipe_extraction (tasks.py:40-237) and
\* process_ocr_recipe_extraction (tasks.py:240-437) differ in the fetch
\* (page text / stored image), the oracle, and source_url being set.

Replace(e, e2) == execs' = (execs (-) SetToBag({e})) (+) SetToBag({e2})

\* The execution returns (or raises Retry) and leaves the worker.
Finish(e) == execs' = execs (-) SetToBag({e})

\* tasks.py:103-106
has_content(data) == Len(data.ingredients) > 0 \/ Len(data.instructions_list) > 0

\* tasks.py:102
TitleOf(data) == IF data.title # "" THEN data.title ELSE "Untitled Recipe"

\* The first phase, from pc on, that has something to iterate over.
PhaseAfter(pc, data) ==
  LET order == <<"ing", "steps", "nutr", "completed">>
      len(p) == IF p = "ing" THEN Len(data.ingredients)
                ELSE IF p = "steps" THEN Len(data.instructions_list)
                ELSE IF p = "nutr" THEN Len(data.nutrients) ELSE 1
      idx == CHOOSE k \in 1..4 : order[k] = pc
      cand == {k \in idx..4 : len(order[k]) > 0}
  IN order[CHOOSE k \in cand : \A j \in cand : k <= j]

\* Delivery of a message and tasks.py:57-112: load the placeholder, fetch the
\* page text / stored image, call the oracle and decide.  ack = FALSE leaves
\* the message in the queue (at-least-once delivery).
Task_Start(m, ack, fetch_ok, resp) ==
  /\ m \in BagToSet(msgs)
  /\ ack \/ redelivered < MaxRedeliver
  /\ msgs' = IF ack THEN msgs (-) SetToBag({m}) ELSE msgs
  /\ redelivered' = IF ack THEN redelivered ELSE redelivered + 1
  /\ LET rid == m.recipe_id
         found == Exists(rid) /\ recipes[rid].user = m.user_id
         \* recipe_data is not assigned when the fetch fails; it is never read then
         data == IF fetch_ok THEN GetRecipeFromOracle(m.task, resp) ELSE ErrorResult(m.task)
         cause == IF ~found THEN "notfound"
                  ELSE IF ~fetch_ok THEN "fetch"
                  ELSE IF resp.kind # "dict" THEN resp.kind
                  ELSE IF resp.is_recipe = "false" THEN "reject"
                  ELSE resp.title
         e == [task |-> m.task, recipe_id |-> rid, user_id |-> m.user_id,
               retries |-> m.retries, data |-> data,
               obj |-> IF found THEN recipes[rid] ELSE NoRecipeObj,
               \* late: the row loaded at tasks.py:58 was already populated and
               \* no other execution for it was in flight
               late |-> /\ found
                        /\ recipes[rid].name \notin SentinelNames
                        /\ \A x \in BagToSet(execs) : x.recipe_id # rid,
               pc |-> "", i |-> 1]
     IN /\ hist' = [hist EXCEPT ![rid].seen = IF @ \in {"", cause} THEN cause ELSE "mixed"]
        /\ IF ~found
           THEN \* tasks.py:60-62
                execs' = execs
           ELSE    IF ~fetch_ok \/ ~data.is_recipe \/ ~has_content(data)
                   THEN execs' = execs (+) SetToBag({[e EXCEPT !.pc = "delete"]})
                   ELSE execs' = execs (+) SetToBag({
                          [e EXCEPT !.pc = "save",
                                    !.obj.name = TitleOf(data),
                                    !.obj.description = data.description,
                                    !.obj.source_url =
                                       IF m.task = "llm" THEN m.source ELSE @,
                                    !.obj.serves = parse_serves_value(data.serves)]})
  /\ UNCHANGED <<recipes, ingredients, steps, nutrients, nextId, response>>

\* Mutant: the early-return branches forget recipe.delete()
Task_Delete_Skip(e) ==
  /\ e.pc = "delete"
  /\ Finish(e)
  /\ UNCHANGED <<recipes, ingredients, steps, nutrients, trending, nextId, msgs,
                 redelivered, response, hist>>

\* Mutant: the early-return branches raise instead of deleting and returning
Task_Delete_Raises(e) ==
  /\ e.pc = "delete"
  /\ Replace(e, [e EXCEPT !.pc = "handler"])
  /\ UNCHANGED <<recipes, ingredients, steps, nutrients, trending, nextId, msgs,
                 redelivered, response, hist>>

\* tasks.py:71-73, 88-90, 97-99, 110-112 : recipe.delete(); return None
Task_Delete(e) ==
  /\ e.pc = "delete"
  /\ DeleteRecipe(e.recipe_id)
  /\ Finish(e)
  /\ UNCHANGED <<nextId, msgs, redelivered, response, hist>>

\* tasks.py:129 : recipe.save()
Task_Save(e) ==
  /\ e.pc = "save"
  /\ SaveRecipe(e.recipe_id, e.obj)
  /\ Replace(e, [e EXCEPT !.pc = "del_ing"])
  /\ UNCHANGED <<ingredients, steps, nutrients, nextId, msgs, redelivered,
                 response, hist>>

\* tasks.py:138-140 : three DELETE statements
Task_DeleteChildren(e) ==
  /\ e.pc \in {"del_ing", "del_steps", "del_nutr"}
  /\ ingredients' = IF e.pc = "del_ing" THEN [ingredients EXCEPT ![e.recipe_id] = EmptyBag]
                    ELSE ingredients
  /\ steps' = IF e.pc = "del_steps" THEN [steps EXCEPT ![e.recipe_id] = EmptyBag] ELSE steps
  /\ nutrients' = IF e.pc = "del_nutr" THEN [nutrients EXCEPT ![e.recipe_id] = EmptyBag]
                  ELSE nutrients
  /\ IF e.pc = "del_ing" THEN Replace(e, [e EXCEPT !.pc = "del_steps"])
     ELSE IF e.pc = "del_steps" THEN Replace(e, [e EXCEPT !.pc = "del_nutr"])
     ELSE LET nxt == PhaseAfter("ing", e.data)
          IN IF nxt = "completed"
             THEN Finish(e)
             ELSE Replace(e, [e EXCEPT !.pc = nxt, !.i = 1])
  /\ UNCHANGED <<recipes, nextId, msgs, redelivered, response, hist>>

\* Where the loop over a phase's list goes after entry e.i
Advance(e, phase, n) ==
  IF e.i < n THEN Replace(e, [e EXCEPT !.i = @ + 1])
  ELSE LET succ == IF phase = "ing" THEN "steps"
                   ELSE IF phase = "steps" THEN "nutr" ELSE "completed"
           nxt == PhaseAfter(succ, e.data)
       IN IF nxt = "completed" THEN Finish(e)
          ELSE Replace(e, [e EXCEPT !.pc = nxt, !.i = 1])

Raise(e) == Replace(e, [e EXCEPT !.pc = "handler"])

\* tasks.py:143-177 : one iteration of the ingredient loop
Task_Ingredient(e) ==
  /\ e.pc = "ing"
  /\ LET rid == e.recipe_id
         item == e.data.ingredients[e.i]
     IN IF item.kind # "dict"
        THEN \* ingredient.get raises AttributeError, not caught at tasks.py:175
             Raise(e) /\ UNCHANGED <<ingredients, hist>>
        ELSE IF ~item.numeric
        THEN \* tasks.py:164 float() raises; tasks.py:175-177 logs and skips the entry
             Advance(e, "ing", Len(e.data.ingredients)) /\ UNCHANGED <<ingredients, hist>>
        ELSE IF item.name = ""
        THEN \* tasks.py:168
             Advance(e, "ing", Len(e.data.ingredients)) /\ UNCHANGED <<ingredients, hist>>
        ELSE IF ~Exists(rid)
        THEN \* INSERT violates the foreign key: IntegrityError
             Raise(e) /\ UNCHANGED <<ingredients, hist>>
        ELSE /\ ingredients' = [ingredients EXCEPT ![rid] =
                   @ (+) SetToBag({[name |-> item.name,
                              quantity |-> IF item.quantity > 0 THEN item.quantity ELSE 0,
                              unit |-> item.unit]})]
             /\ hist' = [hist EXCEPT ![rid].child = TRUE]
             /\ Advance(e, "ing", Len(e.data.ingredients))
  /\ UNCHANGED <<recipes, steps, nutrients, nextId, msgs, redelivered, response>>

\* tasks.py:180-191 : one iteration of the step loop
Task_Step(e) ==
  /\ e.pc = "steps"
  /\ LET rid == e.recipe_id
         instruction == e.data.instructions_list[e.i]
     IN IF instruction = ""
        THEN Advance(e, "steps", Len(e.data.instructions_list)) /\ UNCHANGED <<steps, hist>>
        ELSE IF ~Exists(rid)
        THEN Raise(e) /\ UNCHANGED <<steps, hist>>
        ELSE /\ steps' = [steps EXCEPT ![rid] =
                   @ (+) SetToBag({[description |-> instruction, order |-> e.i]})]
             /\ hist' = [hist EXCEPT ![rid].child = TRUE]
             /\ Advance(e, "steps", Len(e.data.instructions_list))
  /\ UNCHANGED <<recipes, ingredients, nutrients, nextId, msgs, redelivered, response>>

\* tasks.py:194-210 : one iteration of the nutrient loop
Task_Nutrient(e) ==
  /\ e.pc = "nutr"
  /\ LET rid == e.recipe_id
         macro == e.data.nutrients[e.i]
     IN IF macro = ""
        THEN Advance(e, "nutr", Len(e.data.nutrients)) /\ UNCHANGED <<nutrients, hist>>
        ELSE IF ~Exists(rid)
        THEN Raise(e) /\ UNCHANGED <<nutrients, hist>>
        ELSE /\ nutrients' = [nutrients EXCEPT ![rid] = @ (+) SetToBag({[macro |-> macro]})]
             /\ hist' = [hist EXCEPT ![rid].child = TRUE]
             /\ Advance(e, "nutr", Len(e.data.nutrients))
  /\ UNCHANGED <<recipes, ingredients, steps, nextId, msgs, redelivered, response>>

\* Mutant: off by one in the retry test
ShouldRetry_OffByOne(e) == e.retries <= max_retries

\* tasks.py:233 : self.request.retries < self.max_retries
ShouldRetry(e) == e.retries < max_retries

\* tasks.py:219-237 : delete the placeholder if it is still there, then retry
\* while self.request.retries < self.max_retries
Task_Handler(e) ==
  /\ e.pc = "handler"
  /\ IF Exists(e.recipe_id) /\ recipes[e.recipe_id].user = e.user_id
     THEN DeleteRecipe(e.recipe_id)
     ELSE UNCHANGED <<recipes, ingredients, steps, nutrients, trending>>
  /\ IF ShouldRetry(e)
     THEN /\ msgs' = msgs (+) SetToBag({JobMsg(e.task, e.recipe_id, e.user_id, e.retries + 1)})
          /\ hist' = [hist EXCEPT ![e.recipe_id].retried = TRUE]
          /\ Finish(e)
     ELSE /\ msgs' = msgs
          /\ hist' = hist
          /\ Finish(e)
  /\ UNCHANGED <<nextId, redelivered, response>>

TaskStart ==
  \E m \in BagToSet(msgs), ack \in BOOLEAN, fetch_ok \in BOOLEAN, resp \in OracleResponses :
    Task_Start(m, ack, fetch_ok, resp) /\ UNCHANGED <<syncVars, callVars>>
TaskDelete == \E e \in BagToSet(execs) : Task_Delete(e) /\ UNCHANGED <<syncRest, callVars>>
TaskSave == \E e \in BagToSet(execs) : Task_Save(e) /\ UNCHANGED <<syncVars, callVars>>
TaskDeleteChildren == \E e \in BagToSet(execs) : Task_DeleteChildren(e) /\ UNCHANGED <<syncVars, callVars>>
TaskIngredient == \E e \in BagToSet(execs) : Task_Ingredient(e) /\ UNCHANGED <<syncVars, callVars>>
TaskStep == \E e \in BagToSet(execs) : Task_Step(e) /\ UNCHANGED <<syncVars, callVars>>
TaskNutrient == \E e \in BagToSet(execs) : Task_Nutrient(e) /\ UNCHANGED <<syncVars, callVars>>
TaskHandler == \E e \in BagToSet(execs) : Task_Handler(e) /\ UNCHANGED <<syncRest, callVars>>

\* ------------------------------------------ fetch_weekly_trending_recipes
\* tasks.py:23-37 : the owner of system recipes
trending_user == "trending_recipes_system"

\* The tables as one value
Store == <<recipes, ingredients, steps, nutrients, trending>>

\* tasks.py:462 : week_str
WeekRows(w) == {t \in trending : t.week = w}

\* Mutant: the skip test requires more than one row
WeekExists_MoreThanOne(w) == Cardinality(WeekRows(w)) > 1

\* tasks.py:471-472 : existing_count > 0
WeekExists(w) == Cardinality(WeekRows(w)) > 0

ReplaceRun(r, r2) == runs' = (runs (-) SetToBag({r})) (+) SetToBag({r2})

\* The invocation returns the given status
Return(r, status, errors) ==
  /\ runs' = runs (-) SetToBag({r})
  /\ lastRun' = [lastRun EXCEPT !.status = status, !.errors = errors]
  /\ finished' = finished \cup {r.week}

\* The envelope of one queued invocation
SyncMsg(retries, countdown) == [retries |-> retries, countdown |-> countdown]

\* The beat schedule (core/celery.py:22-27) or a manual trigger queues the job
SyncTrigger ==
  /\ triggered < MaxSyncRuns
  /\ triggered' = triggered + 1
  /\ syncMsgs' = syncMsgs (+) SetToBag({SyncMsg(0, 0)})
  /\ UNCHANGED <<trending, runs, week, api_key, lastRun, finished>>
  /\ UNCHANGED <<storeVars, jobVars, callVars>>

\* timezone.now() moves into the next ISO week
AdvanceWeek ==
  /\ week < MaxWeek
  /\ week' = week + 1
  /\ UNCHANGED <<trending, syncMsgs, triggered, runs, api_key, lastRun, finished>>
  /\ UNCHANGED <<storeVars, jobVars, callVars>>

\* The SPOONACULAR_API_KEY environment variable (services.py:714-719) is set or unset
SetApiKey ==
  /\ api_key' = ~api_key
  /\ UNCHANGED <<trending, syncMsgs, triggered, runs, week, lastRun, finished>>
  /\ UNCHANGED <<storeVars, jobVars, callVars>>

\* Mutant: the retry test admits one retry more
SyncShouldRetry_OneMore(m) == m.retries <= sync_max_retries

\* tasks.py:636 : self.request.retries < self.max_retries
SyncShouldRetry(m) == m.retries < sync_max_retries

\* tasks.py:448-493 and 632-640 : API key, week, skip test, feed fetch
Sync_Start(m, random, popular) ==
  /\ m \in BagToSet(syncMsgs)
  /\ LET r == [retries |-> m.retries, week |-> week, feed |-> <<>>, pos |-> 1,
               pc |-> "lookup", rid |-> 0, i |-> 1, created_count |-> 0,
               errors |-> {}, snap |-> Store]
         fetched == fetch_trending_recipes_from_spoonacular(random, popular)
         done(status, message, calls) ==
           /\ lastRun' = [status |-> status, message |-> message, calls |-> calls,
                          errors |-> {}]
           /\ finished' = finished \cup {week}
           /\ runs' = runs
           /\ syncMsgs' = syncMsgs (-) SetToBag({m})
     IN IF ~api_key THEN done("error", "no api key", 0)                    \* tasks.py:452-456
        ELSE IF WeekExists(week) THEN done("skipped", "exists", 0)     \* tasks.py:471-479
        ELSE IF ~fetched.ok
        THEN \* tasks.py:484-486, 632-640
             IF SyncShouldRetry(m)
             THEN /\ syncMsgs' = (syncMsgs (-) SetToBag({m}))
                                   (+) SetToBag({SyncMsg(m.retries + 1, sync_countdown)})
                  /\ lastRun' = [status |-> "retry", message |-> "exception",
                                 calls |-> fetched.calls, errors |-> {}]
                  /\ UNCHANGED <<runs, finished>>
             ELSE done("error", "exception", fetched.calls)
        ELSE IF fetched.recipes = <<>> THEN done("error", "no recipes", fetched.calls)
                                                           \* tasks.py:488-490
        ELSE /\ runs' = runs (+) SetToBag({[r EXCEPT !.feed = fetched.recipes]})
             /\ syncMsgs' = syncMsgs (-) SetToBag({m})
             /\ lastRun' = [status |-> "running", message |-> "", calls |-> fetched.calls,
                            errors |-> {}]
             /\ finished' = finished
  /\ UNCHANGED <<trending, triggered, week, api_key>>
  /\ UNCHANGED <<storeVars, jobVars, callVars>>

\* The loop moves to the next feed entry, or the invocation returns (tasks.py:624-630)
\* snap is the value of the tables when the next entry starts
\* and errors the positions whose processing has raised so far
NextCandidate(r, created, snap, errors) ==
  IF r.pos < Len(r.feed)
  THEN /\ ReplaceRun(r, [r EXCEPT !.pos = @ + 1, !.pc = "lookup", !.rid = 0, !.i = 1,
                                  !.created_count = @ + created, !.snap = snap,
                                  !.errors = errors])
       /\ UNCHANGED <<lastRun, finished>>
  ELSE Return(r, "success", errors)

\* Mutant: an exception in one entry ends the invocation
CandidateRaises_Aborts(r) == Return(r, "error", r.errors \cup {r.pos})

\* tasks.py:620-622 : except Exception: log and continue
CandidateRaises(r) == NextCandidate(r, 0, Store, r.errors \cup {r.pos})

\* tasks.py:499-519 : skip an entry without id; look the external id up
Sync_Lookup(r) ==
  /\ r.pc = "lookup"
  /\ LET c == r.feed[r.pos]
         found == {t \in trending : t.spoonacular_id = c.id}
     IN IF c.id = 0 THEN NextCandidate(r, 0, Store, r.errors)
        ELSE /\ ReplaceRun(r, [r EXCEPT !.pc = "save",
                                        !.rid = IF found = {} THEN 0
                                                ELSE (CHOOSE t \in found : TRUE).recipe])
             /\ UNCHANGED <<lastRun, finished>>
  /\ UNCHANGED <<trending, syncMsgs, triggered, week, api_key>>
  /\ UNCHANGED <<storeVars, jobVars, callVars>>

\* The first child-row phase, from pc on, that has something to iterate over
SyncPhaseAfter(pc, n) ==
  LET order == <<"ing", "steps", "nutr", "upsert">>
      len(p) == IF p = "ing" THEN Len(n.ingredients)
                ELSE IF p = "steps" THEN Len(n.steps)
                ELSE IF p = "nutr" THEN Len(n.nutrients) ELSE 1
      idx == CHOOSE k \in 1..4 : order[k] = pc
      cand == {k \in idx..4 : len(order[k]) > 0}
  IN order[CHOOSE k \in cand : \A j \in cand : k <= j]

\* tasks.py:519-547 : recipe.save() of the linked Recipe, or Recipe.objects.create
Sync_SaveRecipe(r) ==
  /\ r.pc = "save"
  /\ LET n == r.feed[r.pos].normalized_recipe
         row == [user |-> trending_user, name |-> n.name, description |-> "",
                 source_url |-> "", serves |-> n.serves, is_trending |-> TRUE]
     IN IF r.rid # 0
        THEN /\ SaveRecipe(r.rid, row)
             /\ nextId' = nextId
             /\ ReplaceRun(r, [r EXCEPT !.pc = "del_ing"])
        ELSE /\ nextId \in RecipeIds
             /\ SaveRecipe(nextId, row)
             /\ nextId' = nextId + 1
             /\ ReplaceRun(r, [r EXCEPT !.rid = nextId, !.pc = SyncPhaseAfter("ing", n),
                                        !.i = 1])
  /\ UNCHANGED <<ingredients, steps, nutrients>>
  /\ UNCHANGED <<trending, syncMsgs, triggered, week, api_key, lastRun, finished>>
  /\ UNCHANGED <<jobVars, callVars>>

\* Mutant: the reuse branch forgets recipe.ingredients.all().delete()
Sync_DeleteChildren_KeepsIngredients(r) ==
  /\ r.pc \in {"del_ing", "del_steps", "del_nutr"}
  /\ ingredients' = ingredients
  /\ steps' = IF r.pc = "del_steps" THEN [steps EXCEPT ![r.rid] = EmptyBag] ELSE steps
  /\ nutrients' = IF r.pc = "del_nutr" THEN [nutrients EXCEPT ![r.rid] = EmptyBag]
                  ELSE nutrients
  /\ ReplaceRun(r, [r EXCEPT !.pc = IF r.pc = "del_ing" THEN "del_steps"
                                    ELSE IF r.pc = "del_steps" THEN "del_nutr"
                                    ELSE SyncPhaseAfter("ing", r.feed[r.pos].normalized_recipe),
                             !.i = 1])
  /\ UNCHANGED <<recipes, nextId>>
  /\ UNCHANGED <<trending, syncMsgs, triggered, week, api_key, lastRun, finished>>
  /\ UNCHANGED <<jobVars, callVars>>

\* tasks.py:532-534 : three DELETE statements
Sync_DeleteChildren(r) ==
  /\ r.pc \in {"del_ing", "del_steps", "del_nutr"}
  /\ ingredients' = IF r.pc = "del_ing" THEN [ingredients EXCEPT ![r.rid] = EmptyBag]
                    ELSE ingredients
  /\ steps' = IF r.pc = "del_steps" THEN [steps EXCEPT ![r.rid] = EmptyBag] ELSE steps
  /\ nutrients' = IF r.pc = "del_nutr" THEN [nutrients EXCEPT ![r.rid] = EmptyBag]
                  ELSE nutrients
  /\ ReplaceRun(r, [r EXCEPT !.pc = IF r.pc = "del_ing" THEN "del_steps"
                                    ELSE IF r.pc = "del_steps" THEN "del_nutr"
                                    ELSE SyncPhaseAfter("ing", r.feed[r.pos].normalized_recipe),
                             !.i = 1])
  /\ UNCHANGED <<recipes, nextId>>
  /\ UNCHANGED <<trending, syncMsgs, triggered, week, api_key, lastRun, finished>>
  /\ UNCHANGED <<jobVars, callVars>>

\* tasks.py:549-599 : one INSERT of the ingredient, step or nutrient loop
Sync_CreateChild(r) ==
  /\ r.pc \in {"ing", "steps", "nutr"}
  /\ LET n == r.feed[r.pos].normalized_recipe
         list == IF r.pc = "ing" THEN n.ingredients
                 ELSE IF r.pc = "steps" THEN n.steps ELSE n.nutrients
         succ == IF r.pc = "ing" THEN "steps" ELSE IF r.pc = "steps" THEN "nutr" ELSE "upsert"
         r2 == IF r.i < Len(list) THEN [r EXCEPT !.i = @ + 1]
               ELSE [r EXCEPT !.pc = SyncPhaseAfter(succ, n), !.i = 1]
     IN IF ~Exists(r.rid)
        THEN \* IntegrityError, caught at tasks.py:620: next entry
             /\ CandidateRaises(r)
             /\ UNCHANGED <<ingredients, steps, nutrients>>
        ELSE /\ ingredients' = IF r.pc = "ing"
                               THEN [ingredients EXCEPT ![r.rid] = @ (+) SetToBag({list[r.i]})]
                               ELSE ingredients
             /\ steps' = IF r.pc = "steps"
                         THEN [steps EXCEPT ![r.rid] = @ (+) SetToBag({list[r.i]})]
                         ELSE steps
             /\ nutrients' = IF r.pc = "nutr"
                             THEN [nutrients EXCEPT ![r.rid] = @ (+) SetToBag({list[r.i]})]
                             ELSE nutrients
             /\ ReplaceRun(r, r2)
             /\ UNCHANGED <<lastRun, finished>>
  /\ UNCHANGED <<recipes, nextId>>
  /\ UNCHANGED <<trending, syncMsgs, triggered, week, api_key>>
  /\ UNCHANGED <<jobVars, callVars>>

\* tasks.py:602-622 : TrendingRecipe.objects.update_or_create(week, position, defaults)
\* under unique (week, position), unique spoonacular_id and the one-to-one recipe
Sync_Upsert(r) ==
  /\ r.pc = "upsert"
  /\ LET c == r.feed[r.pos]
         old == {t \in trending : t.week = r.week /\ t.position = r.pos}
         new == [week |-> r.week, position |-> r.pos, spoonacular_id |-> c.id,
                 recipe |-> r.rid]
         clash == \E t \in trending \ old :
                    t.spoonacular_id = c.id \/ t.recipe = r.rid
     IN IF clash \/ ~Exists(r.rid)
        THEN \* IntegrityError, caught at tasks.py:620
             /\ trending' = trending
             /\ CandidateRaises(r)
        ELSE /\ trending' = (trending \ old) \cup {new}
             /\ NextCandidate(r, IF old = {} THEN 1 ELSE 0,
                              <<recipes, ingredients, steps, nutrients,
                                (trending \ old) \cup {new}>>, r.errors)
  /\ UNCHANGED <<syncMsgs, triggered, week, api_key>>
  /\ UNCHANGED <<storeVars, jobVars, callVars>>

SyncStart ==
  \E m \in BagToSet(syncMsgs), random \in FeedOutcomes, popular \in FeedOutcomes :
    Sync_Start(m, random, popular)
SyncLookup == \E r \in BagToSet(runs) : Sync_Lookup(r)
SyncSaveRecipe == \E r \in BagToSet(runs) : Sync_SaveRecipe(r)
SyncDeleteChildren == \E r \in BagToSet(runs) : Sync_DeleteChildren(r)
SyncCreateChild == \E r \in BagToSet(runs) : Sync_CreateChild(r)
SyncUpsert == \E r \in BagToSet(runs) : Sync_Upsert(r)

SyncNext ==
  \/ SyncTrigger
  \/ AdvanceWeek
  \/ SetApiKey
  \/ SyncStart
  \/ SyncLookup
  \/ SyncSaveRecipe
  \/ SyncDeleteChildren
  \/ SyncCreateChild
  \/ SyncUpsert

SyncInit ==
  /\ trending = {}
  /\ syncMsgs = EmptyBag
  /\ triggered = 0
  /\ runs = EmptyBag
  /\ week = 1
  /\ api_key \in BOOLEAN
  /\ lastRun = NoRun
  /\ finished = {}
  /\ recipes = <<>>
  /\ ingredients = [r \in RecipeIds |-> EmptyBag]
  /\ steps = [r \in RecipeIds |-> EmptyBag]
  /\ nutrients = [r \in RecipeIds |-> EmptyBag]
  /\ nextId = 1
  /\ msgs = EmptyBag
  /\ redelivered = 0
  /\ execs = EmptyBag
  /\ response = [status |-> "", id |-> 0]
  /\ hist = [r \in RecipeIds |-> NoHist]
  /\ arg = NoCall
  /\ result = NoCall

\* The weekly sync job on its own, over the same tables
SyncSpec == SyncInit /\ [][SyncNext]_vars

\* An invocation starts only when no other invocation is in progress
SeqSyncStart == runs = EmptyBag /\ SyncStart

SeqSyncNext ==
  \/ SyncTrigger
  \/ AdvanceWeek
  \/ SetApiKey
  \/ SeqSyncStart
  \/ SyncLookup
  \/ SyncSaveRecipe
  \/ SyncDeleteChildren
  \/ SyncCreateChild
  \/ SyncUpsert

\* The weekly sync job with its invocations one after the other
SeqSyncSpec == SyncInit /\ [][SeqSyncNext]_vars

\* --------------------------------------------------------------- recipe API
\* urls.py:8 : path('recipes/<int:recipe_id>/'); Django's int converter matches
\* [0-9]+ only, so a negative id resolves to no view

\* Mutant: the route also accepts a signed id
RouteMatches_Signed(recipe_id) == TRUE

RouteMatches(recipe_id) == recipe_id >= 0

Methods == {"GET", "PATCH", "DELETE"}

\* The recipe_id values of requests: row ids, an unused id, and the negated
\* external ids of the feed
RequestIds == RecipeIds \cup {0} \cup {0 - CandTacos.id, 0 - CandCurry.id}

IngSugar == [name |-> "sugar", quantity |-> -1, unit |-> "g"]

\* Request bodies: name only; name with ingredients and steps; no name
Bodies ==
  {[name |-> "Renamed", has_ingredients |-> FALSE, ingredients |-> <<>>,
    has_steps |-> FALSE, steps |-> <<>>],
   [name |-> "Cake", has_ingredients |-> TRUE, ingredients |-> <<IngSugar>>,
    has_steps |-> TRUE, steps |-> <<"Stir", "Bake">>],
   [name |-> "", has_ingredients |-> FALSE, ingredients |-> <<>>,
    has_steps |-> FALSE, steps |-> <<>>]}

\* views.py:660-675 and 862-876 : rows as the view writes them
BodyIngredients(body) ==
  SeqToBag([k \in 1..Len(body.ingredients) |-> body.ingredients[k]])
BodySteps(body) ==
  SeqToBag([k \in 1..Len(body.steps) |-> [description |-> body.steps[k], order |-> k]])

\* views.py:787-878
recipe_detail(method, u, recipe_id, body) ==
  LET found == Exists(recipe_id)
      byExt == {t \in trending : t.spoonacular_id = 0 - recipe_id}
      denied == /\ found
                /\ method \in {"PATCH", "DELETE"}
                /\ (recipes[recipe_id].is_trending \/ recipes[recipe_id].user # u)
      rid == IF found THEN recipe_id
             ELSE IF recipe_id < 0 /\ byExt # {} THEN (CHOOSE t \in byExt : TRUE).recipe
             ELSE 0
      respond(status) == response' = [status |-> status, id |-> recipe_id, method |-> method]
  IN IF ~RouteMatches(recipe_id)
     THEN respond("not_found") /\ UNCHANGED <<recipes, ingredients, steps, nutrients, trending>>
     ELSE IF denied
     THEN respond("denied") /\ UNCHANGED <<recipes, ingredients, steps, nutrients, trending>>
     ELSE IF rid = 0
     THEN respond("not_found") /\ UNCHANGED <<recipes, ingredients, steps, nutrients, trending>>
     ELSE IF method = "GET"
     THEN respond("ok") /\ UNCHANGED <<recipes, ingredients, steps, nutrients, trending>>
     ELSE IF method = "PATCH"
     THEN /\ SaveRecipe(rid, [recipes[rid] EXCEPT
                               !.name = IF body.name # "" THEN body.name ELSE @])
          /\ ingredients' = IF body.has_ingredients
                            THEN [ingredients EXCEPT ![rid] = BodyIngredients(body)]
                            ELSE ingredients
          /\ steps' = IF body.has_steps THEN [steps EXCEPT ![rid] = BodySteps(body)]
                      ELSE steps
          /\ respond("ok")
          /\ UNCHANGED <<nutrients, trending>>
     ELSE /\ DeleteRecipe(rid)
          /\ respond("deleted")

RecipeDetail ==
  \E method \in Methods, u \in Users, recipe_id \in RequestIds, body \in Bodies :
    /\ recipe_detail(method, u, recipe_id, body)
    /\ UNCHANGED <<nextId, msgs, redelivered, execs, hist>>
    /\ UNCHANGED <<syncMsgs, triggered, runs, week, api_key, lastRun, finished, callVars>>

\* views.py:636-675 : recipe_source = "explicit"
recipe_list_explicit(u, body) ==
  IF body.name = ""
  THEN /\ response' = [status |-> "error", id |-> 0, method |-> "POST"]
       /\ UNCHANGED storeVars
  ELSE /\ nextId \in RecipeIds
       /\ Cardinality({r \in DOMAIN recipes : recipes[r].user = u}) < MaxRequests
       /\ recipes' = (nextId :> NewRecipe(u, body.name, "", "")) @@ recipes
       /\ ingredients' = [ingredients EXCEPT ![nextId] = BodyIngredients(body)]
       /\ steps' = [steps EXCEPT ![nextId] = BodySteps(body)]
       /\ nextId' = nextId + 1
       /\ response' = [status |-> "ok", id |-> nextId, method |-> "POST"]
       /\ UNCHANGED nutrients

RecipeExplicit ==
  \E u \in Users, body \in Bodies :
    /\ recipe_list_explicit(u, body)
    /\ UNCHANGED <<msgs, redelivered, execs, hist>>
    /\ UNCHANGED <<syncVars, callVars>>

ApiNext ==
  \/ RecipeExplicit
  \/ RecipeDetail

\* The state one run of the weekly sync leaves when the feed is <<CandTacos>>
\* (a reachable state of SeqSyncSpec)
ApiInit ==
  /\ recipes = (1 :> [user |-> trending_user, name |-> CandTacos.normalized_recipe.name,
                      description |-> "", source_url |-> "",
                      serves |-> CandTacos.normalized_recipe.serves,
                      is_trending |-> TRUE])
  /\ ingredients = [r \in RecipeIds |->
                      IF r = 1 THEN SeqToBag(CandTacos.normalized_recipe.ingredients)
                      ELSE EmptyBag]
  /\ steps = [r \in RecipeIds |-> EmptyBag]
  /\ nutrients = [r \in RecipeIds |-> EmptyBag]
  /\ nextId = 2
  /\ trending = {[week |-> 1, position |-> 1, spoonacular_id |-> CandTacos.id,
                  recipe |-> 1]}
  /\ syncMsgs = EmptyBag
  /\ triggered = 1
  /\ runs = EmptyBag
  /\ week = 1
  /\ api_key = TRUE
  /\ lastRun = [status |-> "success", message |-> "", calls |-> 1, errors |-> {}]
  /\ finished = {1}
  /\ msgs = EmptyBag
  /\ redelivered = 0
  /\ execs = EmptyBag
  /\ response = [status |-> "", id |-> 0]
  /\ hist = [r \in RecipeIds |-> NoHist]
  /\ arg = NoCall
  /\ result = NoCall

\* The recipe API over a store that holds a trending recipe
ApiSpec == ApiInit /\ [][ApiNext]_vars

\* ------------------------------------------------------ parse_ingredient_string
\* What parse_ingredient(text, separate_names=True) of ingredient-parser-nlp
\* does: it raises, or returns the names it found and at most one amount
NoAmount == [present |-> FALSE, quantity |-> None, unit |-> ""]
Amounts ==
  {NoAmount,
   [present |-> TRUE, quantity |-> Num(2), unit |-> "cup"],
   [present |-> TRUE, quantity |-> Num(2), unit |-> ""],
   [present |-> TRUE, quantity |-> [text |-> "some"], unit |-> "cup"]}
ParseOutcomes ==
  {[kind |-> "raise", names |-> <<>>, amount |-> NoAmount]} \cup
  {[kind |-> "ok", names |-> n, amount |-> a] :
     n \in {<<>>, <<"flour">>, <<"butter", "margarine">>}, a \in Amounts}

IngredientLines == {"", " ", "2 cups flour", "butter or margarine"}

\* not ingredient_str or not str(ingredient_str).strip()
Blank(text) == text \in {"", " "}

\* services.py:121-166
parse_ingredient_string(ingredient_str, parsed) ==
  LET fallback(name) == <<[name |-> name, quantity |-> 0, unit |-> ""]>>
      results == [k \in 1..Len(parsed.names) |->
                    [name |-> parsed.names[k],
                     quantity |-> IF parsed.amount.present
                                  THEN get_float(parsed.amount.quantity, 0) ELSE 0,
                     unit |-> IF parsed.amount.present THEN parsed.amount.unit ELSE ""]]
  IN IF Blank(ingredient_str) THEN fallback("")
     ELSE IF parsed.kind = "raise" THEN fallback(ingredient_str)
     ELSE IF results # <<>> THEN results
     ELSE fallback("")

\* ------------------------------------------------- calls of the pure functions
\* External payloads: with and without the optional keys, and with every list
\* of at most MaxNutrients nutrition entries
NutritionEntries ==
  {[name |-> "Calories", amount |-> Num(12346)],
   [name |-> "Energy", amount |-> Num(50000)],
   [name |-> "Vitamin C", amount |-> Num(10)],
   [name |-> "PROTEIN", amount |-> None]}
NutritionLists == UNION {[1..k -> NutritionEntries] : k \in 0..MaxNutrients}
PayloadBases ==
  {<<>>, [id |-> 7], [title |-> "Tacos"], [name |-> "Stew", servings |-> 4], RawCurry}
Payloads ==
  {IF list = <<>> THEN base ELSE [nutrition |-> [nutrients |-> list]] @@ base :
     base \in PayloadBases, list \in NutritionLists}

\* ------------------------------------------------------ recipe_from_url
\* The url argument: empty, not http(s), or a page address.
Urls == {"", "ftp://site/page", "http://site/page"}

\* services.py:668-670 : urlparse(url) has scheme http/https and a netloc
UrlValid(url) == url = "http://site/page"

\* What scrape_me(url).to_json() does: raise, or return a dict.  A missing
\* 'title' reads as "" (result.get('title') is falsy either way), a missing list
\* as <<>>.
ScrapeOutcomes ==
  {[kind |-> "raise", title |-> "", ingredients |-> <<>>, instructions_list |-> <<>>]}
  \cup {[kind |-> "dict", title |-> t, ingredients |-> i, instructions_list |-> l] :
          t \in {"", "Soup"}, i \in {<<>>, <<"1 cup stock">>}, l \in {<<>>, <<"Boil">>}}

\* What _get_text_from_website does: raise, or return the cleaned text
PageTexts == {"raise", "", "page text"}

\* Mutant: a title alone makes the scraper result acceptable
Useful_TitleOnly(scraped) ==
  scraped.title # ""

\* services.py:680 : result and title and (ingredients or instructions_list)
Useful(scraped) ==
  scraped.title # "" /\ (scraped.ingredients # <<>> \/ scraped.instructions_list # <<>>)

\* services.py:708 : the dict returned when every method failed
FailedResult ==
  [is_recipe |-> FALSE, reason |-> "No recipe detected", title |-> "Recipe from URL",
   description |-> "Recipe extraction failed", ingredients |-> <<>>,
   instructions_list |-> <<>>]

\* services.py:649-709.  scraped / text / resp are what the scraper, the page
\* fetch and the text oracle answer if they are called; the value comes with
\* the record of which of them were called.
recipe_from_url(url, use_async, scraped, text, resp) ==
  LET out(v, s, f, o) == [value |-> v, scraper |-> s, fetched |-> f, oracle |-> o]
  IN IF url = "" THEN out(None, FALSE, FALSE, FALSE)
     ELSE IF UrlValid(url) /\ scraped.kind = "dict" /\ Useful(scraped)
     THEN out(scraped, TRUE, FALSE, FALSE)
     ELSE IF use_async THEN out(None, UrlValid(url), FALSE, FALSE)
     ELSE IF text = "raise" \/ text = "" THEN out(FailedResult, UrlValid(url), TRUE, FALSE)
     ELSE out(GetRecipeFromOracle("llm", resp), UrlValid(url), TRUE, TRUE)

\* An explicit rejection that also carries an (empty) ingredients key
RespRejectList == [RespReject EXCEPT !.has_ingredients = TRUE]

OracleInputs == OracleResponses \cup {RespRejectList}

CallInit ==
  /\ Init!1 /\ Init!2 /\ Init!3 /\ Init!4 /\ Init!5 /\ Init!6 /\ Init!7 /\ Init!8
  /\ Init!9 /\ Init!10 /\ Init!11 /\ Init!12 /\ Init!13 /\ Init!14 /\ Init!15
  /\ Init!16 /\ Init!17 /\ Init!18
  /\ arg \in {[fn |-> "normalize_spoonacular_recipe_data", recipe |-> p] : p \in Payloads}
            \cup {[fn |-> "parse_ingredient_string", ingredient_str |-> t, parsed |-> o] :
                     t \in IngredientLines, o \in ParseOutcomes}
            \cup {[fn |-> "recipe_from_url", url |-> u, use_async |-> a, scraped |-> s,
                    text |-> t, resp |-> r] :
                     u \in Urls, a \in BOOLEAN, s \in ScrapeOutcomes, t \in PageTexts,
                     r \in {RespReject, RespRecipe}}
            \cup {[fn |-> "get_recipe_from_oracle", task |-> k, resp |-> r] :
                     k \in Tasks, r \in OracleInputs}
            \cup {[fn |-> "fetch_trending_recipes_from_spoonacular", random |-> r,
                    popular |-> q] : r \in FeedOutcomes, q \in FeedOutcomes}
  /\ result = NoCall

CallNormalize ==
  /\ arg.fn = "normalize_spoonacular_recipe_data"
  /\ result = NoCall
  /\ result' = [fn |-> arg.fn, value |-> normalize_spoonacular_recipe_data(arg.recipe)]
  /\ UNCHANGED <<storeVars, jobVars, syncVars, arg>>

CallParse ==
  /\ arg.fn = "parse_ingredient_string"
  /\ result = NoCall
  /\ result' = [fn |-> arg.fn,
                value |-> parse_ingredient_string(arg.ingredient_str, arg.parsed)]
  /\ UNCHANGED <<storeVars, jobVars, syncVars, arg>>

CallRecipeFromUrl ==
  /\ arg.fn = "recipe_from_url"
  /\ result = NoCall
  /\ result' = [fn |-> arg.fn] @@
                recipe_from_url(arg.url, arg.use_async, arg.scraped, arg.text, arg.resp)
  /\ UNCHANGED <<storeVars, jobVars, syncVars, arg>>

CallOracle ==
  /\ arg.fn = "get_recipe_from_oracle"
  /\ result = NoCall
  /\ result' = [fn |-> arg.fn, value |-> GetRecipeFromOracle(arg.task, arg.resp)]
  /\ UNCHANGED <<storeVars, jobVars, syncVars, arg>>

CallFetch ==
  /\ arg.fn = "fetch_trending_recipes_from_spoonacular"
  /\ result = NoCall
  /\ result' = [fn |-> arg.fn,
                value |-> fetch_trending_recipes_from_spoonacular(arg.random, arg.popular)]
  /\ UNCHANGED <<storeVars, jobVars, syncVars, arg>>

CallNext ==
  \/ CallNormalize
  \/ CallParse
  \/ CallRecipeFromUrl
  \/ CallOracle
  \/ CallFetch

\* One call of a pure function on one input
CallSpec == CallInit /\ [][CallNext]_vars

Next ==
  \/ recipe_list_post
  \/ TaskStart
  \/ TaskDelete
  \/ TaskSave
  \/ TaskDeleteChildren
  \/ TaskIngredient
  \/ TaskStep
  \/ TaskNutrient
  \/ TaskHandler

Spec == Init /\ [][Next]_vars

TypeOK ==
  /\ DOMAIN recipes \subseteq RecipeIds
  /\ nextId \in RecipeIds \cup {Cardinality(RecipeIds) + 1}
  /\ redelivered \in 0..MaxRedeliver


\* Fair scheduling of the queue and of the worker pool: a deliverable message
\* is eventually delivered and a running execution eventually takes its step.
FairSpec ==
  /\ Spec
  /\ WF_vars(TaskStart) /\ WF_vars(TaskDelete) /\ WF_vars(TaskSave)
  /\ WF_vars(TaskDeleteChildren) /\ WF_vars(TaskIngredient) /\ WF_vars(TaskStep)
  /\ WF_vars(TaskNutrient) /\ WF_vars(TaskHandler)

\* ------------------------------------- extraction jobs and owner's DELETE
\* The state after a POST created placeholder 1 and queued its job, and one run
\* of the weekly sync then stored the feed <<CandTacos>> as Recipe 2.
SysInit ==
  \E task \in Tasks :
    /\ recipes = (1 :> NewRecipe("u1", SentinelName(task), SentinelDescription(task),
                                 IF task = "llm" THEN SourceOf(task) ELSE ""))
                 @@ (2 :> [user |-> trending_user,
                           name |-> CandTacos.normalized_recipe.name,
                           description |-> "", source_url |-> "",
                           serves |-> CandTacos.normalized_recipe.serves,
                           is_trending |-> TRUE])
    /\ ingredients = [r \in RecipeIds |->
                        IF r = 2 THEN SeqToBag(CandTacos.normalized_recipe.ingredients)
                        ELSE EmptyBag]
    /\ steps = [r \in RecipeIds |-> EmptyBag]
    /\ nutrients = [r \in RecipeIds |-> EmptyBag]
    /\ nextId = 3
    /\ trending = {[week |-> 1, position |-> 1, spoonacular_id |-> CandTacos.id,
                    recipe |-> 2]}
    /\ syncMsgs = EmptyBag
    /\ triggered = 1
    /\ runs = EmptyBag
    /\ week = 1
    /\ api_key = TRUE
    /\ lastRun = [status |-> "success", message |-> "", calls |-> 1, errors |-> {}]
    /\ finished = {1}
    /\ msgs = SetToBag({JobMsg(task, 1, "u1", 0)})
    /\ redelivered = 0
    /\ execs = EmptyBag
    /\ response = [status |-> "processing", id |-> 1]
    /\ hist = [r \in RecipeIds |-> NoHist]
    /\ arg = NoCall
    /\ result = NoCall

\* views.py:787-878 : a DELETE request (it carries no body) on recipes/<id>/,
\* for the placeholder and for the trending recipe
RecipeDelete ==
  \E u \in Users, recipe_id \in {1, 2} :
    /\ recipe_detail("DELETE", u, recipe_id, CHOOSE b \in Bodies : b.name = "")
    /\ UNCHANGED <<nextId, msgs, redelivered, execs, hist>>
    /\ UNCHANGED <<syncRest, callVars>>

\* Delivery of a message that the worker acknowledges: no redelivery
TaskStartOnce ==
  \E m \in BagToSet(msgs), fetch_ok \in BOOLEAN, resp \in OracleResponses :
    Task_Start(m, TRUE, fetch_ok, resp) /\ UNCHANGED <<syncVars, callVars>>

SysNext ==
  \/ TaskStartOnce
  \/ TaskDelete
  \/ TaskSave
  \/ TaskDeleteChildren
  \/ TaskIngredient
  \/ TaskStep
  \/ TaskNutrient
  \/ TaskHandler
  \/ RecipeDelete

\* The workers run the queued job, every message delivered once, while the
\* owner sends DELETE requests
SysSpec == SysInit /\ [][SysNext]_vars


\* ----------------------------------------------------------------- claims
Running(rid) == \E e \in BagToSet(execs) : e.recipe_id = rid
Pending(rid) == \E m \in BagToSet(msgs) : m.recipe_id = rid
\* Some execution ran for rid and nothing more will run
JobFinished(rid) == hist[rid].seen # "" /\ ~Running(rid) /\ ~Pending(rid)
Processing(rid) == Exists(rid) /\ recipes[rid].name \in SentinelNames
NoChildren(rid) ==
  ingredients[rid] = EmptyBag /\ steps[rid] = EmptyBag /\ nutrients[rid] = EmptyBag

\* What hist.seen records for an execution that received oracle response r
CauseOf(r) ==
  IF r.kind # "dict" THEN r.kind ELSE IF r.is_recipe = "false" THEN "reject" ELSE r.title

\* The rows one uninterrupted execution leaves for oracle response r
ExpectedIngredients(r) ==
  SeqToBag([k \in 1..Len(r.ingredients) |->
             [name |-> r.ingredients[k].name, quantity |-> r.ingredients[k].quantity,
              unit |-> r.ingredients[k].unit]])
ExpectedSteps(r) ==
  SeqToBag([k \in 1..Len(r.instructions_list) |->
             [description |-> r.instructions_list[k], order |-> k]])
ExpectedNutrients(r) ==
  SeqToBag([k \in 1..Len(r.nutrients) |-> [macro |-> r.nutrients[k]]])
\* Responses that a single execution turns into a populated recipe
GoodResponses ==
  {r \in OracleResponses :
     /\ r.kind = "dict" /\ r.is_recipe = "true" /\ r.title # ""
     /\ Len(r.ingredients) + Len(r.instructions_list) > 0
     /\ \A k \in 1..Len(r.ingredients) :
          r.ingredients[k].kind = "dict" /\ r.ingredients[k].name # ""
                                         /\ r.ingredients[k].numeric
                                         /\ r.ingredients[k].quantity >= 0}
PopulatedFrom(rid, r) ==
  /\ Exists(rid)
  /\ recipes[rid].name = r.title
  /\ recipes[rid].serves = r.serves
  /\ ingredients[rid] = ExpectedIngredients(r)
  /\ steps[rid] = ExpectedSteps(r)
  /\ nutrients[rid] = ExpectedNutrients(r)

\* C1: once the extraction job of a placeholder has finished for the last time,
\* the placeholder id holds no Recipe or a Recipe whose name is not a
\* processing sentinel.
C1_NoSentinelAfterJob ==
  \A rid \in RecipeIds : JobFinished(rid) /\ Exists(rid) => recipes[rid].name \notin SentinelNames

C1_Witness ==
  \E rid \in RecipeIds : JobFinished(rid) /\ Exists(rid) /\ recipes[rid].name = "Pancakes"

\* C2: under fair scheduling every placeholder is eventually populated or deleted.
C2_PlaceholderResolves ==
  \A rid \in RecipeIds : Processing(rid) ~> ~Processing(rid)

\* C3: when the oracle answers is_recipe = false, the job deletes the
\* placeholder on that execution, schedules no retry and no child row is ever
\* created for the placeholder id.
C3_RejectDeletesWithoutRetry ==
  \A rid \in RecipeIds :
    hist[rid].seen = "reject" =>
      /\ ~hist[rid].child
      /\ ~hist[rid].retried
      /\ \A x \in BagToSet(msgs) \cup BagToSet(execs) : x.recipe_id = rid => x.retries = 0
      /\ ~Running(rid) => ~Exists(rid) /\ NoChildren(rid)

C3_Witness ==
  \E rid \in RecipeIds : hist[rid].seen = "reject" /\ JobFinished(rid) /\ ~Exists(rid)

\* C4: an oracle call that raises, times out or answers with something that is
\* not valid JSON is a transient failure: the job is retried, not ended like a
\* rejection.
C4_TransientIsRetried ==
  \A rid \in RecipeIds :
    hist[rid].seen \in {"raise", "nonjson"} /\ ~Running(rid) => hist[rid].retried

C6_DuplicateExecutionIdempotent ==
  \A rid \in RecipeIds : \A r \in GoodResponses :
    JobFinished(rid) /\ hist[rid].seen = CauseOf(r) => PopulatedFrom(rid, r)

\* C7: a reader sees the placeholder (sentinel name, no child rows) or the
\* final recipe with all its child rows, never anything in between.
C7_UpdateAtomicForReaders ==
  \A rid \in DOMAIN recipes :
    \/ recipes[rid].name \in SentinelNames /\ NoChildren(rid)
    \/ \E r \in GoodResponses : PopulatedFrom(rid, r)

\* C8: a creation request on the asynchronous path that creates a placeholder
\* enqueues exactly one job carrying the placeholder id, the source and the
\* owner id, and answers with status "processing".
C8_PlaceholderHasJob ==
  [][\A rid \in RecipeIds :
       (rid = nextId /\ nextId' = nextId + 1) =>
          /\ rid \in DOMAIN recipes'
          /\ \E task \in Tasks :
               /\ recipes'[rid].name = SentinelName(task)
               /\ msgs' = msgs (+) SetToBag({JobMsg(task, rid, recipes'[rid].user, 0)})
          /\ response' = [status |-> "processing", id |-> rid]]_vars

\* ------------------------------------------------------------ weekly sync
\* A step in which an invocation of the job starts executing
SyncStartStep == syncMsgs' # syncMsgs /\ triggered' = triggered

NoDuplicateTrending ==
  \A t1, t2 \in trending :
    ((t1.week = t2.week /\ t1.position = t2.position)
       \/ t1.spoonacular_id = t2.spoonacular_id
       \/ t1.recipe = t2.recipe) => t1 = t2

SecondRunSkips ==
  /\ lastRun'.status = "skipped"
  /\ lastRun'.calls = 0
  /\ runs' = EmptyBag
  /\ UNCHANGED <<storeVars, trending>>

\* C9 (as stated): when the job has already returned once for the current week
\* and is invoked again with no other invocation in progress, the table holds no
\* duplicate rows and the second run reports 'skipped', calls no feed endpoint
\* and changes no row.
C9_SecondRunSkipped ==
  /\ []NoDuplicateTrending
  /\ [][(runs = EmptyBag /\ week \in finished /\ SyncStartStep) => SecondRunSkips]_vars

\* C9 (amended): the same, provided the first run stored at least one
\* TrendingRecipe row for the week and the API key is configured at the second run.
C9_SecondRunSkippedIfStored ==
  /\ []NoDuplicateTrending
  /\ [][(runs = EmptyBag /\ week \in finished /\ WeekRows(week) # {} /\ api_key
           /\ SyncStartStep) => SecondRunSkips]_vars

\* A second run has been skipped for a week a first run stored rows for
C9_Witness ==
  /\ lastRun.status = "skipped"
  /\ runs = EmptyBag
  /\ week \in finished
  /\ WeekRows(week) # {}

\* No job is queued or running
SyncQuiescent == runs = EmptyBag /\ syncMsgs = EmptyBag

\* Recipes owned by the system user that no TrendingRecipe row links to
OrphanTrending ==
  {rid \in DOMAIN recipes :
     /\ recipes[rid].is_trending
     /\ recipes[rid].user = trending_user
     /\ \A t \in trending : t.recipe # rid}

\* C10: whatever the interleaving of concurrent invocations, once they have all
\* returned there is at most one TrendingRecipe row per (week, position) and per
\* external id, and every system-owned trending Recipe is linked from a row.
C10_ConcurrentRunsIdempotent ==
  SyncQuiescent => (NoDuplicateTrending /\ OrphanTrending = {})

\* The step of run r in which the processing of its current entry raises
RaisesIn(r) ==
  \/ runs' = EmptyBag /\ r.pos \in lastRun'.errors
  \/ \E r2 \in BagToSet(runs') : r.pos \in r2.errors

\* C11: with invocations one after the other, every step of a run, a raising
\* one included, keeps the rows stored so far and either stays on the entry,
\* moves to the very next entry, or returns 'success' after the last entry:
\* an entry that raises never ends the run and no later entry is left out.
C11_BadCandidateDoesNotAbort ==
  [][\A r \in BagToSet(runs) :
       runs' # runs =>
         /\ trending \subseteq trending'
         /\ IF runs' = EmptyBag
            THEN r.pos = Len(r.feed) /\ lastRun'.status = "success"
            ELSE \E r2 \in BagToSet(runs') :
                   /\ r2.feed = r.feed
                   /\ r2.pos \in {r.pos, r.pos + 1}
                   /\ r.errors \subseteq r2.errors]_vars

\* A run has returned 'success' although its first entry raised, and the entry
\* after it is stored
C11_Witness ==
  /\ runs = EmptyBag
  /\ lastRun.status = "success"
  /\ 1 \in lastRun.errors
  /\ \E t \in trending : t.week = week /\ t.position = 2

\* C12: when the processing of an entry raises, the tables are what they were
\* when the processing of that entry began.
C12_CandidateAllOrNothing ==
  [][\A r \in BagToSet(runs) :
       RaisesIn(r) =>
         <<recipes', ingredients', steps', nutrients', trending'>> = r.snap]_vars

TrendingIds == {r \in DOMAIN recipes : recipes[r].is_trending}

\* The trending recipes with their child rows
TrendingContent ==
  [r \in TrendingIds |-> <<recipes[r], ingredients[r], steps[r], nutrients[r]>>]

C15_QuantityNonNegative ==
  \A r \in RecipeIds : \A row \in BagToSet(ingredients[r]) : row.quantity >= 0

\* C17: when no writer is in progress, the Step rows of every Recipe have
\* order >= 1 and pairwise different orders.
C17_StepOrderUnique ==
  runs = EmptyBag =>
    \A r \in RecipeIds :
      \A s1 \in BagToSet(steps[r]) :
        /\ s1.order >= 1
        /\ CopiesIn(s1, steps[r]) = 1
        /\ \A s2 \in BagToSet(steps[r]) : s1.order = s2.order => s1 = s2

\* ------------------------------------------------------------ pure functions
Normalized == result # NoCall /\ result.fn = "normalize_spoonacular_recipe_data"
Parsed == result # NoCall /\ result.fn = "parse_ingredient_string"

\* The nutrition entries of the payload
InputNutrients == Get(Get(arg.recipe, "nutrition", <<>>), "nutrients", <<>>)

\* The macro an input entry maps to, "" when its name is not in the table
MacroOf(entry) ==
  IF Lower(entry.name) \in DOMAIN NUTRIENT_NAME_MAP THEN NUTRIENT_NAME_MAP[Lower(entry.name)]
  ELSE ""

TotalFailure == ~Blank(arg.ingredient_str) /\ (arg.parsed.kind = "raise" \/ arg.parsed.names = <<>>)

\* C19: the parser returns a non-empty list whatever the oracle does, and on
\* total failure exactly one record with the original text as name, quantity
\* 0 and unit "".
C19_ParserNeverEmpty ==
  Parsed =>
    /\ Len(result.value) >= 1
    /\ TotalFailure =>
         result.value = <<[name |-> arg.ingredient_str, quantity |-> 0, unit |-> ""]>>

\* The keys normalize_spoonacular_recipe_data reads
OptionalKeys ==
  {"title", "name", "summary", "instructions", "image", "imageUrl", "sourceUrl",
   "spoonacularSourceUrl", "servings", "extendedIngredients", "usedIngredients",
   "missedIngredients", "analyzedInstructions", "nutrition", "aggregateLikes", "likes",
   "readyInMinutes", "cookingMinutes"}

\* C20: a payload with none of the optional keys, the empty map included, is
\* normalized to name 'Untitled Recipe', empty lists and serves null.
C20_NormalizerTotal ==
  (Normalized /\ DOMAIN arg.recipe \cap OptionalKeys = {}) =>
    result.value = [name |-> "Untitled Recipe", serves |-> 0, ingredients |-> <<>>,
                    steps |-> <<>>, nutrients |-> <<>>]

\* C16: when an extraction job handles an ingredient entry that has a name, it
\* inserts an Ingredient row for it, with quantity 0 and unit "" when the
\* quantity of the entry is null or not a number.
C16_IngredientNeverSkipped ==
  [][\A e \in BagToSet(execs) :
       LET item == e.data.ingredients[e.i]
       IN (/\ e.pc = "ing"
           /\ CopiesIn(e, execs') < CopiesIn(e, execs)
           /\ item.kind = "dict"
           /\ item.name # ""
           /\ Exists(e.recipe_id)) =>
            ingredients'[e.recipe_id] =
              ingredients[e.recipe_id] (+)
                SetToBag({[name |-> item.name,
                           quantity |-> IF item.numeric /\ item.quantity > 0
                                        THEN item.quantity ELSE 0,
                           unit |-> IF item.numeric THEN item.unit ELSE ""]})]_vars

\* The Recipe row of rid and its child rows
Rows(rid) ==
  <<IF Exists(rid) THEN recipes[rid] ELSE NoRecipeObj,
    ingredients[rid], steps[rid], nutrients[rid]>>

\* C21: once an execution has populated the placeholder and returned
\* "completed", no step of an execution that starts afterwards (a retry or a
\* redelivered duplicate) changes or deletes the Recipe row or its child rows.
C21_CompletedIsAbsorbing ==
  [][\A e \in BagToSet(execs) :
       (e.late /\ CopiesIn(e, execs') < CopiesIn(e, execs))
         => Rows(e.recipe_id)' = Rows(e.recipe_id)]_vars


\* C22: recipe_from_url(url, use_async=True) returns the scraper's result
\* exactly when the scraper was called and returned, without raising, a title
\* and a non-empty ingredients list or instructions_list; in every other case it
\* returns None and neither the page fetch nor the text oracle is called.
C22_AsyncNeverCallsOracle ==
  (result.fn = "recipe_from_url" /\ arg.use_async) =>
     LET good == /\ result.scraper
                 /\ arg.scraped.kind = "dict"
                 /\ arg.scraped.title # ""
                 /\ Len(arg.scraped.ingredients) + Len(arg.scraped.instructions_list) > 0
     IN /\ good => result.value = arg.scraped
        /\ ~good => result.value = None
        /\ ~result.fetched /\ ~result.oracle

C22_Witness ==
  /\ result.fn = "recipe_from_url" /\ arg.use_async
  /\ arg.scraped.kind = "dict" /\ arg.scraped.title = "Soup"
  /\ arg.scraped.ingredients = <<>> /\ arg.scraped.instructions_list # <<>>
  /\ result.value = arg.scraped

\* C23: when the oracle response parses to {is_recipe: false, reason: r} the
\* extraction function returns is_recipe = false with reason = r, a result
\* different from the one returned when the oracle call fails.
C23_RejectionReasonPreserved ==
  (/\ result.fn = "get_recipe_from_oracle"
   /\ arg.resp.kind = "dict" /\ arg.resp.is_recipe = "false") =>
     /\ result.value.is_recipe = FALSE
     /\ result.value.reason = arg.resp.reason
     /\ result.value # ErrorResult(arg.task)

\* The step in which execution e returns status "completed"
ReturnsCompleted(e) ==
  /\ e.pc \notin {"delete", "handler"}
  /\ CopiesIn(e, execs') < CopiesIn(e, execs)
  /\ BagCardinality(execs') < BagCardinality(execs)

\* C24: when an extraction job returns status "completed", the Recipe has at
\* least one Ingredient row if the oracle result had a non-empty ingredients
\* list, at least one Step row if it had a non-empty instructions_list, and
\* never zero Ingredient rows together with zero Step rows.
C24_CompletedIsPopulated ==
  [][\A e \in BagToSet(execs) :
       ReturnsCompleted(e) =>
         /\ Len(e.data.ingredients) > 0 => ingredients'[e.recipe_id] # EmptyBag
         /\ Len(e.data.instructions_list) > 0 => steps'[e.recipe_id] # EmptyBag
         /\ ~(ingredients'[e.recipe_id] = EmptyBag /\ steps'[e.recipe_id] = EmptyBag)]_vars

\* C25: when a run for week W returns 'success', every feed entry at position
\* p that has an external id, one whose id is already linked from a row of an
\* earlier week included, has a TrendingRecipe row (W, p) carrying that id and
\* linking to a Recipe with the entry's name.
C25_EveryCandidateStored ==
  [][\A r \in BagToSet(runs) :
       (runs' = EmptyBag /\ lastRun'.status = "success") =>
         \A p \in 1..Len(r.feed) :
           r.feed[p].id # 0 =>
             \E t \in trending' :
               /\ t.week = r.week /\ t.position = p
               /\ t.spoonacular_id = r.feed[p].id
               /\ t.recipe \in DOMAIN recipes'
               /\ recipes'[t.recipe].name = r.feed[p].normalized_recipe.name]_vars

\* The rows linking the external id of the entry run r is processing
LinkedRows(r) == {t \in trending : t.spoonacular_id = r.feed[r.pos].id}

\* C26: with invocations one after the other, for a feed entry whose external
\* id already has a TrendingRecipe row, once the entry's child rows are written
\* no Recipe row has been created since the entry's processing began, the
\* linked Recipe carries the entry's fields and its Ingredient, Step and
\* Nutrient rows are exactly those of the entry's normalized payload.
C26_ReuseReplacesChildren ==
  \A r \in BagToSet(runs) :
    (r.pc = "upsert" /\ LinkedRows(r) # {}) =>
      LET n == r.feed[r.pos].normalized_recipe
      IN \A t \in LinkedRows(r) :
           /\ r.rid = t.recipe
           /\ DOMAIN recipes = DOMAIN r.snap[1]
           /\ Exists(t.recipe)
           /\ recipes[t.recipe].name = n.name
           /\ recipes[t.recipe].serves = n.serves
           /\ recipes[t.recipe].is_trending
           /\ ingredients[t.recipe] = SeqToBag(n.ingredients)
           /\ steps[t.recipe] = SeqToBag(n.steps)
           /\ nutrients[t.recipe] = SeqToBag(n.nutrients)

\* The week-1 Recipe of external id 101 has been rewritten from the week-2
\* entry with the same id: its ingredient is no longer the one stored first
C26_Witness ==
  \E r \in BagToSet(runs) :
    /\ r.pc = "upsert" /\ LinkedRows(r) # {}
    /\ r.feed[r.pos] = CandTacosV2
    /\ r.snap[2][r.rid] = SeqToBag(CandTacos.normalized_recipe.ingredients)
    /\ ingredients[r.rid] = SeqToBag(CandTacosV2.normalized_recipe.ingredients)

\* C27: fetch_trending_recipes_from_spoonacular requests the popularity search
\* exactly when the random endpoint answered with zero recipes, at most once
\* and only after the random endpoint; when the random request raises, the
\* function raises and the popularity search is not requested.
C27_FallbackOnlyWhenEmpty ==
  result.fn = "fetch_trending_recipes_from_spoonacular" =>
    LET sent == result.value.endpoints
        searches == {k \in 1..Len(sent) : sent[k] = "complexSearch"}
    IN /\ searches # {} <=> (arg.random.ok /\ arg.random.recipes = <<>>)
       /\ Cardinality(searches) <= 1
       /\ \A k \in searches : \E j \in 1..(k - 1) : sent[j] = "random"
       /\ ~arg.random.ok => (~result.value.ok /\ searches = {})

\* The random endpoint answered with no recipe and the search supplied the feed
C27_Witness ==
  /\ result.fn = "fetch_trending_recipes_from_spoonacular"
  /\ arg.random.ok /\ arg.random.recipes = <<>>
  /\ result.value.endpoints = <<"random", "complexSearch">>
  /\ result.value.recipes = arg.popular.recipes /\ result.value.recipes # <<>>

\* C28: the step that queues a retry leaves no Recipe row for the
\* placeholder, and an execution delivered with retries > 0 finds no Recipe:
\* it returns at once, so no retried execution is ever past the load, none
\* fetches, calls the oracle, writes a row or returns "completed".
C28_RetryFindsNothing ==
  /\ [][\A m \in BagToSet(msgs') :
          (m.retries > 0 /\ CopiesIn(m, msgs') > CopiesIn(m, msgs))
             => ~Exists(m.recipe_id)']_vars
  /\ [](\A e \in BagToSet(execs) : e.retries = 0)

\* C29: when the owner's DELETE of the placeholder has been answered (the job
\* being in flight or not), the Recipe row is gone and stays gone: no step of
\* the job re-creates it or creates Ingredient, Step or Nutrient rows for it.
C29_DeletedStaysDeleted ==
  (/\ "method" \in DOMAIN response
   /\ response.method = "DELETE"
   /\ response.status = "deleted") =>
     (~Exists(response.id) /\ NoChildren(response.id))

\* C30: no TrendingRecipe row links to a Recipe that does not exist and no
\* Ingredient, Step or Nutrient row belongs to a Recipe that does not exist:
\* whoever deletes a Recipe, its rows go with it in the same step.
C30_NoDanglingRows ==
  /\ \A t \in trending : Exists(t.recipe)
  /\ \A rid \in RecipeIds : ~Exists(rid) => NoChildren(rid)

\* The owner has deleted recipe 1 after the job had written child rows for it,
\* and the TrendingRecipe row of another recipe is still there
C30_Witness ==
  /\ "method" \in DOMAIN response
  /\ response.status = "deleted" /\ response.id = 1
  /\ hist[1].child
  /\ ~Exists(1)
  /\ trending # {}

====
